---- MODULE Spec2Model ----
(***************************************************************************)
(* A model of ghostSolver.py: the trie builder (buildTrie), the word       *)
(* enumerator (allWords), the branch ranker (bestWords), the forced-win    *)
(* solver (winningMoves) and the report driver (printWinners, main).       *)
(*                                                                         *)
(* Python dicts are mutable objects, so the trie is modelled as a heap:    *)
(* a sequence of dicts addressed by their index, each dict the sequence of *)
(* its <<letter, address of the child dict>> items in insertion order      *)
(* (the order in which Python iterates a dict).  A letter is a one         *)
(* character string, a word a sequence of letters.                         *)
(***************************************************************************)
EXTENDS Naturals, Sequences, FiniteSets

VARIABLES
  heap,             \* the dicts reachable from main's local `trie`
  input,            \* the lines fileinput.input() has yielded so far
  pc,               \* where main is: "build", "first", "second", "done"
  todo,             \* the root letters printWinners' loop has yet to visit
  out               \* what has been printed, one entry per print call

vars == <<heap, input, pc, todo, out>>

(***************************************************************************)
(* Bounds of the model.                                                    *)
(***************************************************************************)
\* how many letters of the alphabet the generated input lines use
NumLetters == 2
\* the longest generated input word
MaxLen == 6
\* the most lines the generated input holds
MaxWords == 3

(***************************************************************************)
(* Characters and their order.                                             *)
(***************************************************************************)
\* the characters the regular expression [^a-z] lets through, in order
Alphabet ==
  << "a", "b", "c", "d", "e", "f", "g", "h", "i", "j", "k", "l", "m",
     "n", "o", "p", "q", "r", "s", "t", "u", "v", "w", "x", "y", "z" >>

Lowercase == { Alphabet[i] : i \in 1..Len(Alphabet) }

\* the other characters of the model's input, in code point order:
\* newline < apostrophe < capitals < lowercase
OtherChars == << "\n", "'", "B", "C" >>

Whitespace == { "\n" }

\* the position of a character in code point order
Ord ==
  [ c \in Lowercase \cup { OtherChars[i] : i \in 1..Len(OtherChars) } |->
      IF c \in Lowercase
        THEN Len(OtherChars) + (CHOOSE i \in 1..Len(Alphabet) : Alphabet[i] = c)
        ELSE CHOOSE i \in 1..Len(OtherChars) : OtherChars[i] = c ]

\* Python's < on strings
RECURSIVE StrLess(_, _)
StrLess(s, t) ==
  IF t = <<>> THEN FALSE
  ELSE IF s = <<>> THEN TRUE
  ELSE IF Head(s) = Head(t) THEN StrLess(Tail(s), Tail(t))
  ELSE Ord[Head(s)] < Ord[Head(t)]

StrLeq(s, t) == s = t \/ StrLess(s, t)

IsPrefix(s, t) == Len(s) <= Len(t) /\ SubSeq(t, 1, Len(s)) = s

IsProperPrefix(s, t) == Len(s) < Len(t) /\ IsPrefix(s, t)

\* the least string of a non-empty set
MinStr(S) == CHOOSE s \in S : \A t \in S : StrLeq(s, t)

\* the list with the string w put before the first string greater than it
RECURSIVE InsertSorted(_, _)
InsertSorted(list, w) ==
  IF list = <<>> THEN << w >>
  ELSE IF StrLess(w, Head(list)) THEN << w >> \o list
  ELSE << Head(list) >> \o InsertSorted(Tail(list), w)

\* sorted(list): the strings of a list in ascending order
RECURSIVE sorted(_)
sorted(list) ==
  IF list = <<>> THEN <<>>
  ELSE InsertSorted(sorted(SubSeq(list, 1, Len(list) - 1)), list[Len(list)])

\* the elements of a sequence
Range(s) == { s[i] : i \in 1..Len(s) }

\* line.rstrip(): the line without its trailing whitespace
RECURSIVE rstrip(_)
rstrip(line) ==
  IF line # <<>> /\ line[Len(line)] \in Whitespace
    THEN rstrip(SubSeq(line, 1, Len(line) - 1))
    ELSE line

(***************************************************************************)
(* Dicts on the heap.                                                      *)
(***************************************************************************)
\* main's local `trie`: the first dict buildTrie creates
Root == 1

\* the value None
None == 0

\* the minimum number of letters of a word that counts
MinLen == 4

\* list(d.keys()): the letters of the dict at address t, in insertion order
trieLetters(h, t) == [ i \in 1..Len(h[t]) |-> h[t][i][1] ]

\* letter in d
HasKey(h, t, letter) == \E i \in 1..Len(h[t]) : h[t][i][1] = letter

\* d[letter]: the address of the child dict
subTrie(h, t, letter) ==
  h[t][CHOOSE i \in 1..Len(h[t]) : h[t][i][1] = letter][2]

\* Python's truth value of a dict or None: None and {} are false
Truthy(h, t) == t # None /\ h[t] # <<>>

\* d[letter] = v: replaces the value of an existing key, appends a new one
SetItem(h, t, letter, v) ==
  IF HasKey(h, t, letter)
    THEN [ h EXCEPT ![t] =
             [ i \in 1..Len(h[t]) |->
                 IF h[t][i][1] = letter THEN <<letter, v>> ELSE h[t][i] ] ]
    ELSE [ h EXCEPT ![t] = Append(h[t], <<letter, v>>) ]

\* {}: a new empty dict; its address is Len(h) + 1
NewDict(h) == Append(h, <<>>)

(***************************************************************************)
(* buildTrie.                                                              *)
(***************************************************************************)
\* InsertLetters without `newnode=False` where a letter is followed
RECURSIVE InsertLettersNewnodeKept(_, _, _, _, _)
InsertLettersNewnodeKept(h, p, newnode, word, i) ==
  IF i > Len(word) THEN h
  ELSE LET letter == word[i] IN
    IF HasKey(h, p, letter)
      THEN InsertLettersNewnodeKept(h, subTrie(h, p, letter), newnode, word, i + 1)
    ELSE IF h[p] # <<>> \/ newnode
      THEN LET q  == Len(h) + 1
               h2 == SetItem(NewDict(h), p, letter, q)
           IN InsertLettersNewnodeKept(h2, q, TRUE, word, i + 1)
    ELSE InsertLettersNewnodeKept(h, p, newnode, word, i + 1)

\* InsertLetters without the test `letter in p`: every letter of the word
\* gets a new dict
RECURSIVE InsertLettersOverwrite(_, _, _, _, _)
InsertLettersOverwrite(h, p, newnode, word, i) ==
  IF i > Len(word) THEN h
  ELSE LET q  == Len(h) + 1
           h2 == SetItem(NewDict(h), p, word[i], q)
       IN InsertLettersOverwrite(h2, q, TRUE, word, i + 1)

\* the loop over the letters of a word, from its i-th letter on, with the
\* locals p and newnode; yields the heap after the loop
RECURSIVE InsertLetters(_, _, _, _, _)
InsertLetters(h, p, newnode, word, i) ==
  IF i > Len(word) THEN h
  ELSE LET letter == word[i] IN
    IF HasKey(h, p, letter)
      THEN InsertLetters(h, subTrie(h, p, letter), FALSE, word, i + 1)
    ELSE IF h[p] # <<>> \/ newnode
      THEN LET q  == Len(h) + 1
               h2 == SetItem(NewDict(h), p, letter, q)
           IN InsertLetters(h2, q, TRUE, word, i + 1)
    \* `continue` goes on with the next letter of the same word
    ELSE InsertLetters(h, p, newnode, word, i + 1)

\* re.search('[^a-z]', word)
HasNonLowercase(word) == \E i \in 1..Len(word) : word[i] \notin Lowercase

\* one iteration of the loop over the input lines
InsertLine(h, line) ==
  LET word == rstrip(line) IN
    IF Len(word) < MinLen THEN h
    ELSE IF HasNonLowercase(word) THEN h
    ELSE InsertLetters(h, Root, TRUE, word, 1)

(***************************************************************************)
(* Whose move it is.                                                       *)
(***************************************************************************)
\* x%2 as a truth value
isOdd(x) == x % 2 # 0

\* not x%2
isEven(x) == ~ (x % 2 # 0)

\* isPlayersMove with isEven and isOdd the other way round
isPlayersMoveSwapped(partialWord, playerGoesFirst) ==
  \/ playerGoesFirst /\ isOdd(Len(partialWord))
  \/ ~ playerGoesFirst /\ isEven(Len(partialWord))

isPlayersMove(partialWord, playerGoesFirst) ==
  \/ playerGoesFirst /\ isEven(Len(partialWord))
  \/ ~ playerGoesFirst /\ isOdd(Len(partialWord))

(***************************************************************************)
(* allWords.                                                               *)
(***************************************************************************)
\* the list of the words below the dict at address t, each with partialWord
\* before it, in the order Python iterates the dicts
RECURSIVE allWords(_, _, _)
RECURSIVE AllWordsLoop(_, _, _, _)
allWords(h, t, partialWord) ==
  IF ~ Truthy(h, t) THEN << partialWord >>
  ELSE AllWordsLoop(h, t, partialWord, 1)

\* the loop over the letters, from the i-th on: resultList.extend(...)
AllWordsLoop(h, t, partialWord, i) ==
  IF i > Len(h[t]) THEN <<>>
  ELSE allWords(h, h[t][i][2], Append(partialWord, h[t][i][1]))
         \o AllWordsLoop(h, t, partialWord, i + 1)

(***************************************************************************)
(* bestWords.                                                              *)
(***************************************************************************)
\* min(map(len, wordList))
MinLength(wordList) ==
  CHOOSE n \in { Len(w) : w \in Range(wordList) } :
    \A w \in Range(wordList) : n <= Len(w)

\* SortKey with the words of a letter enumerated from partialWord, not from
\* partialWord+l
SortKeyNoLetter(h, t, partialWord, i) ==
  LET wordList == allWords(h, h[t][i][2], partialWord)
  IN << Len(wordList), MinLength(wordList), MinStr(Range(wordList)) >>

\* the sort key of the i-th letter of the dict at address t:
\* ( countWords[x], shortestWord[x], alphaFirstWord[x])
SortKey(h, t, partialWord, i) ==
  LET wordList == allWords(h, h[t][i][2], Append(partialWord, h[t][i][1]))
  IN << Len(wordList), MinLength(wordList), MinStr(Range(wordList)) >>

\* KeyLess with the shortest word compared before the number of words
KeyLessShortestFirst(k1, k2) ==
  \/ k1[2] < k2[2]
  \/ k1[2] = k2[2] /\ k1[1] < k2[1]
  \/ k1[2] = k2[2] /\ k1[1] = k2[1] /\ StrLess(k1[3], k2[3])

\* Python's < on the key tuples
KeyLess(k1, k2) ==
  \/ k1[1] < k2[1]
  \/ k1[1] = k2[1] /\ k1[2] < k2[2]
  \/ k1[1] = k2[1] /\ k1[2] = k2[2] /\ StrLess(k1[3], k2[3])

\* the index of sorted( trie, key=...)[0]: the sort is stable, so of the
\* letters with the least key the one the dict iterates first
BestIndex(h, t, partialWord) ==
  LET key == [ i \in 1..Len(h[t]) |-> SortKey(h, t, partialWord, i) ]
  IN CHOOSE i \in 1..Len(h[t]) :
       /\ \A j \in 1..Len(h[t]) : ~ KeyLess(key[j], key[i])
       /\ \A j \in 1..(i - 1) : KeyLess(key[i], key[j])

\* yields the heap with the new dict { bestBranchLetter: subTrie(...) } and
\* the address of that dict
bestWords(h, t, partialWord) ==
  LET b  == BestIndex(h, t, partialWord)
      rn == Len(h) + 1
  IN [ heap |-> SetItem(NewDict(h), rn, h[t][b][1], h[t][b][2]), res |-> rn ]

(***************************************************************************)
(* winningMoves.                                                           *)
(***************************************************************************)
RECURSIVE winningMoves(_, _, _, _)
RECURSIVE PlayerLoop(_, _, _, _, _, _)
RECURSIVE OpponentLoop(_, _, _, _, _, _)

\* PlayerLoop with the opponent's `return None` at a child that is no win
RECURSIVE PlayerLoopFirstLoss(_, _, _, _, _, _)
PlayerLoopFirstLoss(h, t, partialWord, playerGoesFirst, rn, i) ==
  IF i > Len(h[t]) THEN [ heap |-> h, res |-> rn ]
  ELSE LET l == trieLetters(h, t)[i]
           c == subTrie(h, t, l)
       IN IF Truthy(h, c)
            THEN LET r == winningMoves(h, c, Append(partialWord, l), playerGoesFirst)
                 IN IF Truthy(r.heap, r.res)
                      THEN PlayerLoopFirstLoss(SetItem(r.heap, rn, l, r.res), t,
                                               partialWord, playerGoesFirst, rn, i + 1)
                      ELSE [ heap |-> r.heap, res |-> None ]
            ELSE PlayerLoopFirstLoss(h, t, partialWord, playerGoesFirst, rn, i + 1)

\* the player's move: the loop over the letters from the i-th on, with the
\* dict resultNode at address rn; yields the heap after the loop and rn
PlayerLoop(h, t, partialWord, playerGoesFirst, rn, i) ==
  IF i > Len(h[t]) THEN [ heap |-> h, res |-> rn ]
  ELSE LET l == trieLetters(h, t)[i]
           c == subTrie(h, t, l)
       IN IF Truthy(h, c)
            THEN LET r == winningMoves(h, c, Append(partialWord, l), playerGoesFirst)
                 IN IF Truthy(r.heap, r.res)
                      THEN PlayerLoop(SetItem(r.heap, rn, l, r.res), t,
                                      partialWord, playerGoesFirst, rn, i + 1)
                      ELSE PlayerLoop(r.heap, t, partialWord, playerGoesFirst,
                                      rn, i + 1)
            ELSE PlayerLoop(h, t, partialWord, playerGoesFirst, rn, i + 1)

\* PlayerResult without `return None`: resultNode is returned when empty
PlayerResultEmptyDict(c, partialWord) ==
  IF Truthy(c.heap, c.res) THEN bestWords(c.heap, c.res, partialWord)
  ELSE [ heap |-> c.heap, res |-> c.res ]

\* the player's move after the loop: the best of the winning children, or
\* None
PlayerResult(c, partialWord) ==
  IF Truthy(c.heap, c.res) THEN bestWords(c.heap, c.res, partialWord)
  ELSE [ heap |-> c.heap, res |-> None ]

\* winningMoves with `resultNode=trie` for `resultNode={}`: the result is
\* built in the dict of the trie
winningMovesInPlace(h, t, partialWord, playerGoesFirst) ==
  IF isPlayersMove(partialWord, playerGoesFirst)
    THEN PlayerResult(PlayerLoop(h, t, partialWord, playerGoesFirst, t, 1),
                      partialWord)
    ELSE OpponentLoop(h, t, partialWord, playerGoesFirst, t, 1)

\* yields the heap after the call and the address of the dict returned, or
\* None
winningMoves(h, t, partialWord, playerGoesFirst) ==
  IF isPlayersMove(partialWord, playerGoesFirst)
    THEN PlayerResult(PlayerLoop(NewDict(h), t, partialWord, playerGoesFirst,
                                 Len(h) + 1, 1),
                      partialWord)
    ELSE OpponentLoop(NewDict(h), t, partialWord, playerGoesFirst, Len(h) + 1, 1)

\* OpponentLoop without `return None`: a child that is no win is left out
RECURSIVE OpponentLoopPrunes(_, _, _, _, _, _)
OpponentLoopPrunes(h, t, partialWord, playerGoesFirst, rn, i) ==
  IF i > Len(h[t]) THEN [ heap |-> h, res |-> rn ]
  ELSE LET l == trieLetters(h, t)[i]
           c == subTrie(h, t, l)
       IN IF ~ Truthy(h, c)
            THEN OpponentLoopPrunes(SetItem(NewDict(h), rn, l, Len(h) + 1), t,
                                    partialWord, playerGoesFirst, rn, i + 1)
            ELSE LET r == winningMoves(h, c, Append(partialWord, l), playerGoesFirst)
                 IN IF ~ Truthy(r.heap, r.res)
                      THEN OpponentLoopPrunes(r.heap, t, partialWord,
                                              playerGoesFirst, rn, i + 1)
                      ELSE OpponentLoopPrunes(SetItem(r.heap, rn, l, r.res), t,
                                              partialWord, playerGoesFirst, rn, i + 1)

\* the opponent's move: the loop over the letters from the i-th on, with
\* the dict resultNode at address rn, and what follows the loop
OpponentLoop(h, t, partialWord, playerGoesFirst, rn, i) ==
  IF i > Len(h[t]) THEN [ heap |-> h, res |-> rn ]
  ELSE LET l == trieLetters(h, t)[i]
           c == subTrie(h, t, l)
       IN IF ~ Truthy(h, c)
            THEN OpponentLoop(SetItem(NewDict(h), rn, l, Len(h) + 1), t,
                              partialWord, playerGoesFirst, rn, i + 1)
            ELSE LET r == winningMoves(h, c, Append(partialWord, l), playerGoesFirst)
                 IN IF ~ Truthy(r.heap, r.res)
                      THEN [ heap |-> r.heap, res |-> None ]
                      ELSE OpponentLoop(SetItem(r.heap, rn, l, r.res), t,
                                        partialWord, playerGoesFirst, rn, i + 1)

(***************************************************************************)
(* The input lines of the model.                                           *)
(***************************************************************************)
Letters == { Alphabet[i] : i \in 1..NumLetters }

\* the letters every generated line begins with: a round is decided by the
\* letters from the (MinLen - 1)-th on, since no word ends before its
\* MinLen-th letter
Stem == [ i \in 1..(MinLen - 2) |-> Alphabet[1] ]

\* the letters the generated lines of a second root letter begin with
OtherStem == [ i \in 1..(MinLen - 2) |-> Alphabet[NumLetters] ]

\* every line of one letter, every line of MinLen - 1 to MaxLen letters
\* that begins with Stem, and every line of MinLen letters that begins with
\* OtherStem, each with its line terminator
Lines ==
  { Append(w, "\n") :
      w \in [ 1..1 -> Letters ] \cup
            { Stem \o v :
                v \in UNION { [ 1..n -> Letters ] :
                  n \in (MinLen - 1 - Len(Stem))..(MaxLen - Len(Stem)) } } \cup
            { OtherStem \o v : v \in [ 1..(MinLen - Len(OtherStem)) -> Letters ] } }

\* the lines of the dictionaries of the scenarios, and lines that the
\* filter drops
ScenarioLines ==
  { << "b", "a", "l", "l", "\n" >>,
    << "b", "a", "l", "d", "\n" >>,
    << "b", "a", "l", "e", "\n" >>,
    << "c", "a", "r", "t", "\n" >>,
    << "c", "a", "r", "t", "o", "o", "n", "\n" >>,
    << "c", "a", "r", "t", "o", "o", "n", "s", "\n" >>,
    << "c", "a", "r", "\n" >>,
    << "C", "a", "r", "t", "s", "\n" >>,
    << "c", "a", "n", "'", "t", "\n" >> }

(***************************************************************************)
(* main.                                                                   *)
(***************************************************************************)
\* a printed line: a header, or the line of a root letter with its words
Header(playerGoesFirst) ==
  [ kind |-> "header", goesFirst |-> playerGoesFirst, letter |-> <<>>,
    words |-> <<>> ]

Winners(playerGoesFirst, l, words) ==
  [ kind |-> "words", goesFirst |-> playerGoesFirst, letter |-> l,
    words |-> words ]

NoWinners(playerGoesFirst, l) ==
  [ kind |-> "none", goesFirst |-> playerGoesFirst, letter |-> l,
    words |-> <<>> ]

\* sorted( trieLetters( trie)) at the root, each letter a one letter string
RootLetters(h) == sorted([ i \in 1..Len(h[Root]) |-> << h[Root][i][1] >> ])

\* PrintLetter with the words enumerated from "", not from the root letter
PrintLetterNoPrefix(h, l, playerGoesFirst) ==
  LET r == winningMoves(h, subTrie(h, Root, l[1]), l, playerGoesFirst)
  IN [ heap |-> r.heap,
       line |-> IF Truthy(r.heap, r.res)
                  THEN Winners(playerGoesFirst, l,
                               sorted(allWords(r.heap, r.res, <<>>)))
                  ELSE NoWinners(playerGoesFirst, l) ]

\* the body of printWinners' loop for the root letter l: the heap after the
\* call of winningMoves, and the line printed
PrintLetter(h, l, playerGoesFirst) ==
  LET r == winningMoves(h, subTrie(h, Root, l[1]), l, playerGoesFirst)
  IN [ heap |-> r.heap,
       line |-> IF Truthy(r.heap, r.res)
                  THEN Winners(playerGoesFirst, l,
                               sorted(allWords(r.heap, r.res, l)))
                  ELSE NoWinners(playerGoesFirst, l) ]

Init ==
  /\ heap = << <<>> >>
  /\ input = <<>>
  /\ pc = "build"
  /\ todo = <<>>
  /\ out = <<>>

\* buildTrie reads a line: one iteration of its loop
ReadLine(line) ==
  /\ pc = "build"
  /\ Len(input) < MaxWords
  /\ input' = Append(input, line)
  /\ heap' = InsertLine(heap, line)
  /\ UNCHANGED << pc, todo, out >>

\* a line that keeps the input in ascending order
Ascending(line) ==
  IF input = <<>> THEN TRUE
  ELSE StrLeq(rstrip(input[Len(input)]), rstrip(line))

\* the input ends: buildTrie returns, main prints the first header and
\* printWinners( trie, True) sorts the root letters
EndOfInput ==
  /\ pc = "build"
  /\ pc' = "first"
  /\ out' = Append(out, Header(TRUE))
  /\ todo' = RootLetters(heap)
  /\ UNCHANGED << heap, input >>

\* one iteration of printWinners' loop; the dicts that winningMoves made
\* are dropped with the local winningTrie
ReportLetter ==
  /\ pc \in { "first", "second" }
  /\ todo # <<>>
  /\ LET p == PrintLetter(heap, Head(todo), pc = "first")
     IN /\ out' = Append(out, p.line)
        /\ heap' = SubSeq(p.heap, 1, Len(heap))
  /\ todo' = Tail(todo)
  /\ UNCHANGED << input, pc >>

\* printWinners( trie, True) returns; main prints the second header and
\* calls printWinners( trie, False)
StartSecond ==
  /\ pc = "first"
  /\ todo = <<>>
  /\ pc' = "second"
  /\ out' = Append(out, Header(FALSE))
  /\ todo' = RootLetters(heap)
  /\ UNCHANGED << heap, input >>

\* printWinners( trie, False) returns, and main with it
Finish ==
  /\ pc = "second"
  /\ todo = <<>>
  /\ pc' = "done"
  /\ UNCHANGED << heap, input, todo, out >>

Report == EndOfInput \/ ReportLetter \/ StartSecond \/ Finish

\* the input is in ascending order, its lines of the first NumLetters letters
ReadSorted == \E line \in Lines : Ascending(line) /\ ReadLine(line)

Next == ReadSorted \/ Report

Spec == Init /\ [][Next]_vars

\* the input is in ascending order, its lines those of the scenarios
ReadScenario == \E line \in ScenarioLines : Ascending(line) /\ ReadLine(line)

NextScenario == ReadScenario \/ Report

SpecScenario == Init /\ [][NextScenario]_vars

\* the input is in any order
ReadUnsorted == \E line \in ScenarioLines : ReadLine(line)

NextUnsorted == ReadUnsorted \/ Report

SpecUnsorted == Init /\ [][NextUnsorted]_vars

(***************************************************************************)
(* What the properties speak of.                                           *)
(***************************************************************************)
\* the paths of letters from the dict at address t to the dicts below it
RECURSIVE Tree(_, _)
Tree(h, t) ==
  { <<>> } \cup
  UNION { { << h[t][i][1] >> \o q : q \in Tree(h, h[t][i][2]) } :
            i \in 1..Len(h[t]) }

\* the address of the dict that a path of Tree(h, t) leads to
RECURSIVE Walk(_, _, _)
Walk(h, t, path) ==
  IF path = <<>> THEN t
  ELSE Walk(h, subTrie(h, t, Head(path)), Tail(path))

\* the letters of the dict at address t
Keys(h, t) == { h[t][i][1] : i \in 1..Len(h[t]) }

\* the paths of a tree that end in a dict with no letters
Leaves(h, t) == { q \in Tree(h, t) : h[Walk(h, t, q)] = <<>> }

\* the paths of the trie, and those that end in a dict with letters
TriePaths == Tree(heap, Root)

InnerPaths == { q \in TriePaths : heap[Walk(heap, Root, q)] # <<>> }

\* the input words that pass the filter: lowercase, MinLen letters or more
Accepted ==
  { w \in { rstrip(input[i]) : i \in 1..Len(input) } :
      Len(w) >= MinLen /\ \A k \in 1..Len(w) : w[k] \in Lowercase }

\* the accepted input words of which no other accepted input word is a
\* proper prefix
PrefixFree == { w \in Accepted : ~ \E u \in Accepted : IsProperPrefix(u, w) }

\* every prefix of the words of a set
Prefixes(W) == UNION { { SubSeq(w, 1, n) : n \in 0..Len(w) } : w \in W }

\* the words allWords enumerates from the root of the trie
TrieWords(h) == Range(allWords(h, Root, <<>>))

\* the designated player's turn by the rule of the game: the player who
\* goes first places the odd letters, so moves after an even number of them
PlayerToMove(n, playerGoesFirst) == (n % 2 = 0) <=> playerGoesFirst

\* the word "ball" and its line
Ball == << "b", "a", "l", "l" >>

(***************************************************************************)
(* C4, as stated: after buildTrie has read an ascending sequence of        *)
(* lines, allWords(trie, "") enumerates exactly the accepted input words   *)
(* of which no other accepted input word is a proper prefix.               *)
(* It fails for an input with no accepted word: allWords of the empty      *)
(* trie is [""], the root dict being a dict with no letters.               *)
(***************************************************************************)
C4_AsStated == pc # "build" => TrieWords(heap) = PrefixFree

(***************************************************************************)
(* C4, amended: when the ascending input holds at least one accepted word, *)
(* allWords(trie, "") enumerates exactly the accepted input words of which *)
(* no other accepted input word is a proper prefix; no enumerated word is  *)
(* a proper prefix of another, none is shorter than MinLen letters, and    *)
(* the trie holds one dict for each prefix of these words and no other     *)
(* (a word that extends an accepted word adds no node).                    *)
(***************************************************************************)
C4_PrefixUnique ==
  Accepted # {} =>
    /\ TrieWords(heap) = PrefixFree
    /\ Len(allWords(heap, Root, <<>>)) = Cardinality(PrefixFree)
    /\ \A u \in TrieWords(heap), w \in TrieWords(heap) : ~ IsProperPrefix(u, w)
    /\ \A w \in TrieWords(heap) : Len(w) >= MinLen
    /\ TriePaths = Prefixes(PrefixFree)
    /\ Len(heap) = Cardinality(Prefixes(PrefixFree))

\* two accepted words were read, the second extending the first, and the
\* trie holds the first only
C4_Witness ==
  /\ Len(input) = 2
  /\ rstrip(input[1]) \in Accepted
  /\ IsProperPrefix(rstrip(input[1]), rstrip(input[2]))
  /\ TrieWords(heap) = { rstrip(input[1]) }

(***************************************************************************)
(* C3, scenario C as stated: when "ball" is the only accepted word of the  *)
(* input, the report for playerGoesFirst=True gives root letter b as "No   *)
(* winning words" and the report for playerGoesFirst=False gives it the    *)
(* word list ["ball"].                                                     *)
(* It fails: the player who goes first places the first and third letter   *)
(* of "ball", the adversary the fourth.                                    *)
(***************************************************************************)
C3_AsStated ==
  (pc = "done" /\ Accepted = { Ball }) =>
    out = << Header(TRUE), NoWinners(TRUE, << "b" >>),
             Header(FALSE), Winners(FALSE, << "b" >>, << Ball >>) >>

(***************************************************************************)
(* C3, amended: when "ball" is the only accepted word of the input, the    *)
(* report for playerGoesFirst=True gives root letter b the word list       *)
(* ["ball"], and the report for playerGoesFirst=False gives it as "No      *)
(* winning words".                                                         *)
(***************************************************************************)
C3_ScenarioC ==
  (pc = "done" /\ Accepted = { Ball }) =>
    out = << Header(TRUE), Winners(TRUE, << "b" >>, << Ball >>),
             Header(FALSE), NoWinners(FALSE, << "b" >>) >>

\* main has finished on the input of the one line "ball"
C3_Witness == pc = "done" /\ input = << Append(Ball, "\n") >>

(***************************************************************************)
(* C8, as stated: when a word is read before one of its own proper         *)
(* prefixes, the trie still enumerates the longer word.                    *)
(* It fails when the longer word was not enumerated in the first place: an *)
(* accepted word before it is its proper prefix, or it is itself a proper  *)
(* prefix of a word before it.                                             *)
(***************************************************************************)
C8_AsStated ==
  \A i \in 1..Len(input), j \in 1..Len(input) :
    ( /\ i < j
      /\ rstrip(input[i]) \in Accepted
      /\ rstrip(input[j]) \in Accepted
      /\ IsProperPrefix(rstrip(input[j]), rstrip(input[i])) )
    => rstrip(input[i]) \in TrieWords(heap)

\* buildTrie's trie after the lines of a list
RECURSIVE TrieOf(_)
TrieOf(lines) ==
  IF lines = <<>> THEN << <<>> >>
  ELSE InsertLine(TrieOf(SubSeq(lines, 1, Len(lines) - 1)), lines[Len(lines)])

(***************************************************************************)
(* C8, amended: when a word that the trie enumerates is followed in the    *)
(* input by one of its own proper prefixes, reading the prefix leaves the  *)
(* trie as it is, and from then on the trie enumerates the longer word and *)
(* not the prefix, although the prefix is an accepted input word.          *)
(***************************************************************************)
C8_SilentUnsorted ==
  \A i \in 1..Len(input), j \in 1..Len(input) :
    ( /\ i < j
      /\ rstrip(input[j]) \in Accepted
      /\ IsProperPrefix(rstrip(input[j]), rstrip(input[i]))
      /\ rstrip(input[i]) \in TrieWords(TrieOf(SubSeq(input, 1, j - 1))) )
    => /\ TrieOf(SubSeq(input, 1, j)) = TrieOf(SubSeq(input, 1, j - 1))
       /\ rstrip(input[i]) \in TrieWords(heap)
       /\ rstrip(input[j]) \notin TrieWords(heap)

\* "cartoon" was read, then "cart", and the trie enumerates "cartoon" alone
C8_Witness ==
  /\ Len(input) = 2
  /\ rstrip(input[1]) = << "c", "a", "r", "t", "o", "o", "n" >>
  /\ rstrip(input[2]) = << "c", "a", "r", "t" >>
  /\ TrieWords(heap) = { rstrip(input[1]) }
  /\ pc = "done"

(***************************************************************************)
(* The solver seen from the trie.                                          *)
(***************************************************************************)
\* buildTrie has just returned the trie of the lines read
Built == pc = "first" /\ Len(out) = 1

\* the dict of the trie that a path leads to
Node(path) == Walk(heap, Root, path)

\* winningMoves at the dict of the trie that a path leads to
Solve(path, playerGoesFirst) ==
  winningMoves(heap, Node(path), path, playerGoesFirst)

\* the result of a call is a dict, not None
IsWin(r) == r.res # None

\* the letters of the dict at path that lead to a dict with letters whose
\* call yields a true value: the winning candidates of a player's move
Candidates(path, playerGoesFirst) ==
  { l \in Keys(heap, Node(path)) :
      /\ heap[Node(Append(path, l))] # <<>>
      /\ Truthy(Solve(Append(path, l), playerGoesFirst).heap,
                Solve(Append(path, l), playerGoesFirst).res) }

(***************************************************************************)
(* C1, win soundness: once buildTrie has returned the trie of an ascending *)
(* input, for every root letter l and both values of playerGoesFirst,      *)
(* when winningMoves(trie[l], l, playerGoesFirst) yields                   *)
(* a subtree S, every path of S is a path of the trie; every path of S     *)
(* that ends in S ends a word of the trie, and its last letter is placed   *)
(* by the opponent; every other node of S at a position where the          *)
(* designated player moves has exactly one child, which is not a leaf; and *)
(* every node of S where the opponent moves has the child letters of the   *)
(* trie's node, each child ending a word or being itself a winning         *)
(* subtree.                                                                *)
(***************************************************************************)
C1_WinSound ==
  Built =>
    \A l \in Keys(heap, Root), g \in BOOLEAN :
      LET r == Solve(<< l >>, g) IN
        IsWin(r) =>
          \A n \in Tree(r.heap, r.res) :
            LET full == << l >> \o n
                kids == Keys(r.heap, Walk(r.heap, r.res, n))
            IN /\ full \in TriePaths
               /\ kids = {} =>
                    /\ heap[Node(full)] = <<>>
                    /\ ~ PlayerToMove(Len(full) - 1, g)
               /\ (kids # {} /\ PlayerToMove(Len(full), g)) =>
                    /\ Cardinality(kids) = 1
                    /\ \A c \in kids :
                         Keys(r.heap, Walk(r.heap, r.res, Append(n, c))) # {}
               /\ (kids # {} /\ ~ PlayerToMove(Len(full), g)) =>
                    /\ kids = Keys(heap, Node(full))
                    /\ \A c \in kids :
                         \/ heap[Node(Append(full, c))] = <<>>
                         \/ IsWin(Solve(Append(full, c), g))

\* a winning subtree in which both players move: the designated player has
\* chosen one of two letters, and the opponent has two letters to choose from
C1_Witness ==
  /\ Built
  /\ \E l \in Keys(heap, Root), g \in BOOLEAN :
       LET r == Solve(<< l >>, g) IN
         /\ IsWin(r)
         /\ \E n \in Tree(r.heap, r.res) :
              /\ PlayerToMove(Len(n) + 1, g)
              /\ Cardinality(Keys(r.heap, Walk(r.heap, r.res, n))) = 1
              /\ Cardinality(Keys(heap, Node(<< l >> \o n))) = 2
         /\ \E n \in Tree(r.heap, r.res) :
              /\ ~ PlayerToMove(Len(n) + 1, g)
              /\ Cardinality(Keys(r.heap, Walk(r.heap, r.res, n))) = 2

(***************************************************************************)
(* C2, loss soundness.  The reference value of a position: where the       *)
(* designated player moves, a win iff some child that does not end a word  *)
(* is a win; where the opponent moves, a win iff every child ends a word   *)
(* or is a win.                                                            *)
(***************************************************************************)
RECURSIVE ForcedWin(_, _)
ForcedWin(path, g) ==
  IF PlayerToMove(Len(path), g)
    THEN \E l \in Keys(heap, Node(path)) :
           /\ heap[Node(Append(path, l))] # <<>>
           /\ ForcedWin(Append(path, l), g)
    ELSE \A l \in Keys(heap, Node(path)) :
           \/ heap[Node(Append(path, l))] = <<>>
           \/ ForcedWin(Append(path, l), g)

(***************************************************************************)
(* C2: once buildTrie has returned the trie of an ascending input, for     *)
(* every node of the trie that does not end a word, with its prefix, and   *)
(* both values of playerGoesFirst, winningMoves yields None                *)
(* only when the designated player has no forced win by the reference      *)
(* value.                                                                  *)
(***************************************************************************)
C2_LossSound ==
  Built =>
    \A path \in InnerPaths, g \in BOOLEAN :
      ~ IsWin(Solve(path, g)) => ~ ForcedWin(path, g)

\* a position where the designated player moves and has two letters, the
\* first a loss and the second a win, and one where both are losses
C2_Witness ==
  /\ Built
  /\ \E path \in InnerPaths, g \in BOOLEAN :
       /\ PlayerToMove(Len(path), g)
       /\ Len(heap[Node(path)]) = 2
       /\ heap[heap[Node(path)][1][2]] # <<>>
       /\ heap[heap[Node(path)][2][2]] # <<>>
       /\ ~ IsWin(Solve(Append(path, heap[Node(path)][1][1]), g))
       /\ IsWin(Solve(Append(path, heap[Node(path)][2][1]), g))
  /\ \E path \in InnerPaths, g \in BOOLEAN :
       /\ PlayerToMove(Len(path), g)
       /\ Len(heap[Node(path)]) = 2
       /\ ~ IsWin(Solve(path, g))

(***************************************************************************)
(* C5, dictionary containment: every word of every printed word list is a  *)
(* word of the trie, that is a path from its root to a dict with no        *)
(* letters, and an accepted input word of MinLen letters or more; and a    *)
(* printed word list is not empty.                                         *)
(***************************************************************************)
C5_Containment ==
  \A k \in 1..Len(out) :
    out[k].kind = "words" =>
      /\ out[k].words # <<>>
      /\ \A w \in Range(out[k].words) :
           /\ w \in Leaves(heap, Root)
           /\ w \in Accepted
           /\ Len(w) >= MinLen

\* main has finished and has printed a list of two words or more
C5_Witness ==
  /\ pc = "done"
  /\ \E k \in 1..Len(out) : out[k].kind = "words" /\ Len(out[k].words) >= 2

(***************************************************************************)
(* C6, branch ranking.  The key of a winning candidate, from its pruned    *)
(* winning subtree: the number of its words, the length of the shortest,   *)
(* and the alphabetically first.                                           *)
(***************************************************************************)
PrunedWords(path, l, g) ==
  LET r == Solve(Append(path, l), g)
  IN { Append(path, l) \o q : q \in Leaves(r.heap, r.res) }

RankKey(path, l, g) ==
  LET W == PrunedWords(path, l, g)
  IN << Cardinality(W),
        CHOOSE n \in { Len(w) : w \in W } : \A w \in W : n <= Len(w),
        CHOOSE w \in W : \A v \in W : StrLeq(w, v) >>

\* ascending order of the keys, the first component deciding before the
\* second, the second before the third
RankLeq(k1, k2) ==
  \/ k1[1] < k2[1]
  \/ k1[1] = k2[1] /\ k1[2] < k2[2]
  \/ k1[1] = k2[1] /\ k1[2] = k2[2] /\ StrLeq(k1[3], k2[3])

\* the positions where the designated player moves and has a winning
\* candidate
PlayerChoices ==
  { c \in InnerPaths \X BOOLEAN :
      PlayerToMove(Len(c[1]), c[2]) /\ Candidates(c[1], c[2]) # {} }

(***************************************************************************)
(* C6: once buildTrie has returned the trie of an ascending input, at      *)
(* every position of the trie where the designated player moves and has a  *)
(* winning candidate, winningMoves yields a dict with exactly one letter;  *)
(* the letter is the winning candidate whose key (number of words,         *)
(* shortest word, alphabetically first word, of its pruned winning         *)
(* subtree) is the least, and below it is that pruned winning subtree.     *)
(***************************************************************************)
C6_Ranking ==
  Built =>
    \A c \in PlayerChoices :
      LET path == c[1]
          g    == c[2]
          r    == Solve(path, g)
          key  == [ l \in Candidates(path, g) |-> RankKey(path, l, g) ]
      IN /\ IsWin(r)
         /\ Len(r.heap[r.res]) = 1
         /\ \E b \in DOMAIN key :
              /\ Keys(r.heap, r.res) = { b }
              /\ \A l \in DOMAIN key : RankLeq(key[b], key[l])
              /\ Leaves(r.heap, r.res) =
                   { << b >> \o q :
                       q \in Leaves(Solve(Append(path, b), g).heap,
                                    Solve(Append(path, b), g).res) }

\* the designated player has two winning candidates; the one chosen has
\* fewer words, the other a shorter word and the alphabetically first
C6_Witness ==
  /\ Built
  /\ \E c \in PlayerChoices :
       \E b \in Candidates(c[1], c[2]), l \in Candidates(c[1], c[2]) :
         /\ Keys(Solve(c[1], c[2]).heap, Solve(c[1], c[2]).res) = { b }
         /\ RankKey(c[1], b, c[2])[1] < RankKey(c[1], l, c[2])[1]
         /\ RankKey(c[1], b, c[2])[2] > RankKey(c[1], l, c[2])[2]
         /\ StrLess(RankKey(c[1], l, c[2])[3], RankKey(c[1], b, c[2])[3])

(***************************************************************************)
(* C7: once buildTrie has returned, no step of main changes a dict of the  *)
(* trie: no call of winningMoves, bestWords or allWords adds a letter to a *)
(* dict of the trie, removes one or changes the dict it leads to.          *)
(***************************************************************************)
C7_TrieReadOnly == [][pc # "build" => heap' = heap]_vars

\* both reports are printed, and winningMoves has built a winning subtree
\* for each of them
C7_Witness ==
  /\ pc = "done"
  /\ \E k \in 1..Len(out) : out[k].kind = "words" /\ out[k].goesFirst
  /\ \E k \in 1..Len(out) : out[k].kind = "words" /\ ~ out[k].goesFirst

(***************************************************************************)
(* C9: once buildTrie has returned the trie of an ascending input, called  *)
(* on a dict of the trie that has letters, winningMoves yields             *)
(* None or a dict with letters, never an empty dict; and the dict of every *)
(* root letter has letters, since no word of the trie has fewer than       *)
(* MinLen letters.                                                         *)
(***************************************************************************)
C9_SentinelSound ==
  Built =>
    /\ \A path \in InnerPaths, g \in BOOLEAN :
         LET r == Solve(path, g) IN r.res = None \/ r.heap[r.res] # <<>>
    /\ \A l \in Keys(heap, Root) : heap[Node(<< l >>)] # <<>>
    /\ \A w \in Leaves(heap, Root) : w = <<>> \/ Len(w) >= MinLen

\* a line of one letter was read and dropped, and of two positions of the
\* trie one yields None and the other a dict
C9_Witness ==
  /\ Built
  /\ \E i \in 1..Len(input) : Len(rstrip(input[i])) = 1
  /\ \E path \in InnerPaths, g \in BOOLEAN : ~ IsWin(Solve(path, g))
  /\ \E path \in InnerPaths, g \in BOOLEAN : IsWin(Solve(path, g))

\* the dict resultNode that winningMoves passes to bestWords at a position
\* where the designated player moves
ResultNode(path, g) ==
  PlayerLoop(NewDict(heap), Node(path), path, g, Len(heap) + 1, 1)

(***************************************************************************)
(* C10: once buildTrie has returned the trie of an ascending input, for    *)
(* every dict that winningMoves passes to bestWords, two letters never     *)
(* have equal sort keys: the alphabetically first word of a letter begins  *)
(* with partialWord and the letter, so the third components differ.        *)
(***************************************************************************)
C10_NoTies ==
  Built =>
    \A c \in PlayerChoices :
      LET rn == ResultNode(c[1], c[2])
          key == [ i \in 1..Len(rn.heap[rn.res]) |->
                     SortKey(rn.heap, rn.res, c[1], i) ]
      IN \A i \in DOMAIN key, j \in DOMAIN key :
           /\ IsPrefix(Append(c[1], rn.heap[rn.res][i][1]), key[i][3])
           /\ i # j => key[i][3] # key[j][3] /\ key[i] # key[j]

\* bestWords is passed a dict of two letters whose keys agree in the number
\* of words and in the shortest word
C10_Witness ==
  /\ Built
  /\ \E c \in PlayerChoices :
       LET rn == ResultNode(c[1], c[2]) IN
         /\ Len(rn.heap[rn.res]) = 2
         /\ SortKey(rn.heap, rn.res, c[1], 1)[1] = SortKey(rn.heap, rn.res, c[1], 2)[1]
         /\ SortKey(rn.heap, rn.res, c[1], 1)[2] = SortKey(rn.heap, rn.res, c[1], 2)[2]

====
